---- MODULE Spec2Model ----
(***************************************************************************)
(* adeleg: the command-line driver (src/adeleg/src/main.rs).               *)
(*                                                                         *)
(* One run of main() is a sequential process: parse the command line, load *)
(* the template files, parse the port, connect, fetch the forest SID, the  *)
(* AdminSDHolder descriptor and the schema, derive the schema delegations, *)
(* search every naming context, close the connection, print the            *)
(* delegations that match no template.                                     *)
(*                                                                         *)
(* The file system and the directory are a snapshot that is fixed before   *)
(* the run.  The model reveals the snapshot as the run observes it (an     *)
(* entry is Unknown until the first operation that reads it), so that the  *)
(* parts of a snapshot no run reads are not enumerated.  A second run      *)
(* (specification SpecTwoRuns) reads the same snapshot again.              *)
(***************************************************************************)
EXTENDS Integers, Sequences, FiniteSets, TLC

(* ---------------------------------------------------------------- bounds *)
MaxFiles == 2
MaxNamingContexts == 2

(* ------------------------------------------------------- program constants *)
U16_MAX == 65535
EXIT_FAILURE == 1
EXIT_USAGE == 2
EXIT_PANIC == 101

(* ------------------------------------------------------------- the inputs *)
None == "None"
Unknown == "Unknown"
Failure == "Err"
Success == "Ok"

FilePaths == <<"a.json", "b.json", "c.json">>
ServerArgs == {None, "dc1"}
\* --port values as typed: the default "389", "0", one above u16, not a number
PortArgs == { <<"3", "8", "9">>, <<"0">>, <<"6", "5", "5", "3", "6">>, <<"x">> }

\* delegations.rs is not part of the sources: a Delegation is the record of
\* spec section 3 (trustee, location, rights, origin), a Template the same
\* with every field optional (a wildcard when absent)
WildTrustee == "*"
WildLocation == <<"*">>
WildRights == {"*"}
TplFinance == [trustee |-> "HelpDesk", location |-> <<"DC=corp", "OU=Finance">>,
               rights |-> WildRights]
TplReaders == [trustee |-> WildTrustee, location |-> WildLocation, rights |-> {"read", "list"}]
\* what a template file that opens and parses can hold
FileContents == { <<>>, <<TplFinance>>, <<TplReaders, TplFinance>> }

ForestSids == {"S-1-5-21-7"}
AceSystem == [trustee |-> "SYSTEM", rights |-> {"full"}]
AceAdmins == [trustee |-> "S-1-5-21-7-512", rights |-> {"full"}]
AceEveryone == [trustee |-> "Everyone", rights |-> {"read"}]
AceHelpDesk == [trustee |-> "HelpDesk", rights |-> {"write:member"}]
\* a schema snapshot: the default descriptor of its one class, "computer"
Schemas == { {AceSystem}, {AceSystem, AceEveryone} }
AdminSDHolderSds == { {AceSystem, AceAdmins} }
\* the objects a naming context can hold
ObjFinance == [dn |-> "OU=Finance", protected |-> FALSE, aces |-> {AceSystem, AceHelpDesk}]
ObjAdmin == [dn |-> "CN=Admin", protected |-> TRUE, aces |-> {AceSystem, AceAdmins, AceEveryone}]
NamingContextObjects == { {}, {ObjFinance}, {ObjFinance, ObjAdmin} }
NamingContextNames == <<"DC=corp", "CN=Configuration", "CN=Schema">>

\* an answer of the snapshot: st is Unknown, Failure, "invalid" or Success
NotRead == [st |-> Unknown, val |-> <<>>]
Err == [st |-> Failure, val |-> <<>>]
Ok(v) == [st |-> Success, val |-> v]

Min(a, b) == IF a < b THEN a ELSE b
Range(s) == {s[k] : k \in 1..Len(s)}

VARIABLES
  argv,              \* the command line: domain, username, password, server, port, files
  fs,                \* file system snapshot: path -> answer of open + parse
  directory,         \* directory snapshot: what each operation answers
  pc,                \* position of main()
  i,                 \* index of the loop main() is in
  base_delegations,  \* line 67
  port,              \* line 92
  credentials,       \* line 99
  conn,              \* "none" | "open" | "closed"
  forest_sid,        \* line 120
  adminsdholder_sd,  \* line 128
  schema,            \* line 136
  delegations,       \* line 144
  naming_contexts,   \* what conn.get_naming_contexts() returned
  ldap_calls,        \* every call made on the directory, in order, with its arguments
  stdout,
  stderr,
  exit_code,         \* <<>> while running, <<status>> once the process has ended
  run,               \* 1, or 2 for the second run over the same snapshot
  first_run          \* the outcome of the first run, once a second one has started

vars == <<argv, fs, directory, pc, i, base_delegations, port, credentials, conn,
          forest_sid, adminsdholder_sd, schema, delegations, naming_contexts,
          ldap_calls, stdout, stderr, exit_code, run, first_run>>

env == <<argv, fs, directory>>
locals == <<base_delegations, port, credentials, conn, forest_sid,
            adminsdholder_sd, schema, delegations, naming_contexts>>
output == <<stdout, stderr, exit_code>>

Args == [domain : BOOLEAN, username : BOOLEAN, password : BOOLEAN,
         server : ServerArgs, port : PortArgs,
         files : {SubSeq(FilePaths, 1, n) : n \in 0..Min(MaxFiles, Len(FilePaths))}]

DirectoryKeys == {"connect", "forest_sid", "adminsdholder_sd", "schema",
                  "naming_contexts", "destroy"} \cup Range(NamingContextNames)

StartOfMain ==
  /\ pc = "get_matches"
  /\ i = 0
  /\ base_delegations = <<>>
  /\ port = 0
  /\ credentials = <<>>
  /\ conn = "none"
  /\ forest_sid = None
  /\ adminsdholder_sd = {}
  /\ schema = {}
  /\ delegations = <<>>
  /\ naming_contexts = <<>>
  /\ ldap_calls = <<>>
  /\ stdout = <<>>
  /\ stderr = <<>>
  /\ exit_code = <<>>

Init ==
  /\ argv \in Args
  /\ fs = [p \in Range(FilePaths) |-> NotRead]
  /\ directory = [k \in DirectoryKeys |-> NotRead]
  /\ run = 1
  /\ first_run = None
  /\ StartOfMain

\* eprintln!(msg), then the process ends with status code
Die(msg, code) ==
  /\ stderr' = Append(stderr, msg)
  /\ stdout' = stdout
  /\ exit_code' = <<code>>
  /\ pc' = "exited"

\* what the snapshot answers for key k: the recorded answer, or, the first
\* time it is read, any of the possible ones
Answer(snap, k, possible) == IF snap[k].st = Unknown THEN possible ELSE {snap[k]}

(* ------------------------------------------------------------ lines 16-65 *)
\* the bug of declaring requires_all on the domain only
RequiresAllOnDomainOnly(a) == a.domain => (a.username /\ a.password)

\* clap: each of domain, username, password requires_all the two others
RequiresAllOk(a) ==
  /\ a.domain => (a.username /\ a.password)
  /\ a.username => (a.domain /\ a.password)
  /\ a.password => (a.domain /\ a.username)

get_matches ==
  /\ pc = "get_matches"
  /\ IF RequiresAllOk(argv)
       THEN /\ pc' = "values_of"
            /\ UNCHANGED output
       ELSE Die([text |-> "error: The following required arguments were not provided",
                 args |-> <<"credentials">>], EXIT_USAGE)
  /\ UNCHANGED <<env, locals, i, ldap_calls, run, first_run>>

(* ------------------------------------------------------------ lines 67-88 *)
\* line 69: args.values_of("deleg_file").unwrap(); deleg_file is not a
\* required argument, so values_of is None when no FILE was given
values_of ==
  /\ pc = "values_of"
  /\ IF argv.files = <<>>
       THEN /\ Die([text |-> "thread 'main' panicked at 'called `Option::unwrap()` on a `None` value'",
                    args |-> <<>>], EXIT_PANIC)
            /\ UNCHANGED i
       ELSE /\ pc' = "load_file"
            /\ i' = 1
            /\ UNCHANGED output
  /\ UNCHANGED <<env, locals, ldap_calls, run, first_run>>

\* lines 71-77: File::open is an Err
OpenFailed(a) == a.st = Failure

\* the bug of skipping a file that does not parse
ParseFailedIgnored(a) == FALSE

\* lines 79-85: serde_json::from_reader is an Err
ParseFailed(a) == a.st = "invalid"

\* lines 70-86, one iteration: File::open, then serde_json::from_reader
load_file ==
  /\ pc = "load_file"
  /\ LET input_filepath == argv.files[i] IN
     \E a \in Answer(fs, input_filepath,
                     {Err, [st |-> "invalid", val |-> <<>>]} \cup {Ok(c) : c \in FileContents}) :
       /\ fs' = [fs EXCEPT ![input_filepath] = a]
       /\ CASE OpenFailed(a) ->
                 /\ Die([text |-> " [!] Unable to open file", args |-> <<input_filepath>>], EXIT_FAILURE)
                 /\ UNCHANGED <<i, base_delegations>>
            [] ParseFailed(a) ->
                 /\ Die([text |-> " [!] Unable to parse file", args |-> <<input_filepath>>], EXIT_FAILURE)
                 /\ UNCHANGED <<i, base_delegations>>
            [] OTHER ->
                 /\ base_delegations' = base_delegations \o a.val
                 /\ IF i < Len(argv.files)
                      THEN i' = i + 1 /\ pc' = "load_file"
                      ELSE i' = 0 /\ pc' = "parse_port"
                 /\ UNCHANGED output
  /\ UNCHANGED <<argv, directory, port, credentials, conn, forest_sid, adminsdholder_sd,
                 schema, delegations, naming_contexts, ldap_calls, run, first_run>>

(* ----------------------------------------------------------- lines 90-110 *)
Digits == <<"0", "1", "2", "3", "4", "5", "6", "7", "8", "9">>
IsDigit(c) == \E d \in 1..Len(Digits) : Digits[d] = c
DigitValue(c) == (CHOOSE d \in 1..Len(Digits) : Digits[d] = c) - 1

RECURSIVE DecimalValue(_)
DecimalValue(s) ==
  IF s = <<>> THEN 0
  ELSE 10 * DecimalValue(SubSeq(s, 1, Len(s) - 1)) + DigitValue(s[Len(s)])

\* port.parse::<u16>(): <<n>> for Ok(n), <<>> for Err
ParseU16(s) ==
  IF s # <<>> /\ (\A k \in 1..Len(s) : IsDigit(s[k])) /\ DecimalValue(s) <= U16_MAX
    THEN <<DecimalValue(s)>>
    ELSE <<>>

\* lines 99-110
Credentials(a) ==
  IF a.domain /\ a.username /\ a.password
    THEN <<[domain |-> "d", username |-> "u", password |-> "p"]>>
    ELSE <<>>

parse_port ==
  /\ pc = "parse_port"
  /\ LET n == ParseU16(argv.port) IN
       IF n # <<>> /\ n[1] > 0
         THEN /\ port' = n[1]
              /\ credentials' = Credentials(argv)
              /\ pc' = "connect"
              /\ UNCHANGED output
         ELSE /\ Die([text |-> "Unable to parse as TCP port", args |-> <<argv.port>>], EXIT_FAILURE)
              /\ UNCHANGED <<port, credentials>>
  /\ UNCHANGED <<env, i, base_delegations, conn, forest_sid, adminsdholder_sd, schema,
                 delegations, naming_contexts, ldap_calls, run, first_run>>

(* ---------------------------------------------------------- lines 112-142 *)
\* server.unwrap_or("default")
ServerName == IF argv.server = None THEN "default" ELSE argv.server

\* the bug of a search that rewrites what it reads
DirectoryAfterWrite(call, d) ==
  IF call = "get_explicit_delegations"
    THEN [d EXCEPT !["adminsdholder_sd"] = Ok({})]
    ELSE d

\* the directory after a call on it: the collaborators are outside the
\* sources; by spec sections 5 and 6 they connect, search, list and close,
\* and change nothing
DirectoryAfter(call, d) == d

\* a call on the directory: it is logged, the snapshot entry k it reads is
\* revealed as a
Call(name, k, arguments, a) ==
  /\ ldap_calls' = Append(ldap_calls, [call |-> name, args |-> arguments, st |-> a.st])
  /\ directory' = DirectoryAfter(name, [directory EXCEPT ![k] = a])

connect ==
  /\ pc = "connect"
  /\ \E a \in Answer(directory, "connect", {Err, Ok(<<>>)}) :
       /\ Call("LdapConnection::new", "connect", <<argv.server, port, credentials>>, a)
       /\ IF a.st = Success
            THEN /\ conn' = "open"
                 /\ pc' = "get_forest_sid"
                 /\ UNCHANGED output
            ELSE /\ Die([text |-> "Unable to connect to", args |-> <<ServerName, port>>], EXIT_FAILURE)
                 /\ UNCHANGED conn
  /\ UNCHANGED <<argv, fs, i, base_delegations, port, credentials, forest_sid,
                 adminsdholder_sd, schema, delegations, naming_contexts, run, first_run>>

fetch_forest_sid ==
  /\ pc = "get_forest_sid"
  /\ \E a \in Answer(directory, "forest_sid", {Err} \cup {Ok(x) : x \in ForestSids}) :
       /\ Call("get_forest_sid", "forest_sid", <<>>, a)
       /\ IF a.st = Success
            THEN /\ forest_sid' = a.val
                 /\ pc' = "get_adminsdholder_sd"
                 /\ UNCHANGED output
            ELSE /\ Die([text |-> "Unable to fetch forest SID", args |-> <<>>], EXIT_FAILURE)
                 /\ UNCHANGED forest_sid
  /\ UNCHANGED <<argv, fs, i, base_delegations, port, credentials, conn,
                 adminsdholder_sd, schema, delegations, naming_contexts, run, first_run>>

fetch_adminsdholder_sd ==
  /\ pc = "get_adminsdholder_sd"
  /\ \E a \in Answer(directory, "adminsdholder_sd", {Err} \cup {Ok(x) : x \in AdminSDHolderSds}) :
       /\ Call("get_adminsdholder_sd", "adminsdholder_sd", <<>>, a)
       /\ IF a.st = Success
            THEN /\ adminsdholder_sd' = a.val
                 /\ pc' = "Schema::query"
                 /\ UNCHANGED output
            ELSE /\ Die([text |-> "Unable to fetch AdminSDHolder security descriptor", args |-> <<>>],
                        EXIT_FAILURE)
                 /\ UNCHANGED adminsdholder_sd
  /\ UNCHANGED <<argv, fs, i, base_delegations, port, credentials, conn,
                 forest_sid, schema, delegations, naming_contexts, run, first_run>>

fetch_schema ==
  /\ pc = "Schema::query"
  /\ \E a \in Answer(directory, "schema", {Err} \cup {Ok(x) : x \in Schemas}) :
       /\ Call("Schema::query", "schema", <<>>, a)
       /\ IF a.st = Success
            THEN /\ schema' = a.val
                 /\ pc' = "get_schema_delegations"
                 /\ UNCHANGED output
            ELSE /\ Die([text |-> "Unable to fetch required information from schema", args |-> <<>>],
                        EXIT_FAILURE)
                 /\ UNCHANGED schema
  /\ UNCHANGED <<argv, fs, i, base_delegations, port, credentials, conn,
                 forest_sid, adminsdholder_sd, delegations, naming_contexts, run, first_run>>

(* ---------------------------------------------------------- lines 144-157 *)
\* a set as a sequence, in a fixed order
RECURSIVE SetToSeq(_)
SetToSeq(S) ==
  IF S = {} THEN <<>>
  ELSE LET x == CHOOSE y \in S : TRUE IN <<x>> \o SetToSeq(S \ {x})

\* the orders in which a search can return the same set of results
Orderings(S) == {s \in [1..Cardinality(S) -> S] : Range(s) = S}

\* spec 4.4: the expected holders of the schema's default rights
BuiltinHolders(sid) == {"SYSTEM", sid \o "-512"}

\* spec 4.4, schema_delegations
get_schema_delegations(sch, sid) ==
  SetToSeq({[trustee |-> ace.trustee, location |-> <<"computer", "(schema default)">>,
             rights |-> ace.rights, origin |-> "schema-default"] :
            ace \in {x \in sch : x.trustee \notin BuiltinHolders(sid)}})

\* spec 4.4, explicit_delegations, steps 2 to 4, as a set: the ACEs of a
\* protected object that AdminSDHolder does not hold, the ACEs of any other
\* object that its class default does not hold
ExplicitDelegations(objects, nc, sid, sch, adminsd) ==
  UNION {{[trustee |-> ace.trustee, location |-> <<nc, o.dn>>,
           rights |-> ace.rights, origin |-> "explicit"] :
          ace \in IF o.protected THEN o.aces \ adminsd ELSE o.aces \ sch} : o \in objects}

\* lines 144-146
schema_delegations ==
  /\ pc = "get_schema_delegations"
  /\ delegations' = <<>> \o get_schema_delegations(schema, forest_sid)
  /\ pc' = "get_naming_contexts"
  /\ UNCHANGED <<env, i, base_delegations, port, credentials, conn, forest_sid,
                 adminsdholder_sd, schema, naming_contexts, ldap_calls, output, run, first_run>>

\* line 148: the iterator of the for loop
get_naming_contexts ==
  /\ pc = "get_naming_contexts"
  /\ \E a \in Answer(directory, "naming_contexts",
                     {Ok(SubSeq(NamingContextNames, 1, n)) :
                        n \in 0..Min(MaxNamingContexts, Len(NamingContextNames))}) :
       /\ Call("get_naming_contexts", "naming_contexts", <<>>, a)
       /\ naming_contexts' = a.val
       /\ IF a.val = <<>>
            THEN i' = 0 /\ pc' = "destroy"
            ELSE i' = 1 /\ pc' = "get_explicit_delegations"
  /\ UNCHANGED <<argv, fs, base_delegations, port, credentials, conn, forest_sid,
                 adminsdholder_sd, schema, delegations, output, run, first_run>>

\* the bug of going on to the next naming context after a failed search
SearchFailedIgnored(a) == FALSE

\* lines 152-155: get_explicit_delegations is an Err
SearchFailed(a) == a.st # Success

\* the bug of passing a fresh, empty schema to the search
SearchArgumentsEmptySchema(naming_context) ==
  <<naming_context, forest_sid, {}, adminsdholder_sd>>

\* the arguments of the call of line 150
SearchArguments(naming_context) == <<naming_context, forest_sid, schema, adminsdholder_sd>>

\* lines 149-156, one iteration
search_naming_context ==
  /\ pc = "get_explicit_delegations"
  /\ LET naming_context == naming_contexts[i]
         arguments == SearchArguments(naming_context)
         fetching == [kind |-> "fetching", body |-> naming_context] IN
     \E a \in Answer(directory, naming_context,
                     {[st |-> Failure, val |-> {}]} \cup {Ok(o) : o \in NamingContextObjects}) :
       /\ Call("get_explicit_delegations", naming_context, arguments, a)
       /\ IF ~SearchFailed(a)
            THEN \E h \in Orderings(ExplicitDelegations(a.val, arguments[1], arguments[2],
                                                        arguments[3], arguments[4])) :
                   /\ delegations' = delegations \o h
                   /\ stdout' = Append(stdout, fetching)
                   /\ IF i < Len(naming_contexts)
                        THEN i' = i + 1 /\ pc' = "get_explicit_delegations"
                        ELSE i' = 0 /\ pc' = "destroy"
                   /\ UNCHANGED <<stderr, exit_code>>
            ELSE /\ stdout' = Append(stdout, fetching)
                 /\ stderr' = Append(stderr,
                      [text |-> " [!] Error when fetching security descriptors of naming context",
                       args |-> <<naming_context>>])
                 /\ exit_code' = <<EXIT_FAILURE>>
                 /\ pc' = "exited"
                 /\ UNCHANGED <<i, delegations>>
  /\ UNCHANGED <<argv, fs, base_delegations, port, credentials, conn, forest_sid,
                 adminsdholder_sd, schema, naming_contexts, run, first_run>>

(* ---------------------------------------------------------- lines 159-162 *)
\* the bug of ignoring the result of the close
DestroyFailedIgnored(a) == FALSE

\* line 159: conn.destroy() is an Err
DestroyFailed(a) == a.st # Success

destroy ==
  /\ pc = "destroy"
  /\ \E a \in Answer(directory, "destroy", {Err, Ok(<<>>)}) :
       /\ Call("destroy", "destroy", <<>>, a)
       /\ IF ~DestroyFailed(a)
            THEN /\ conn' = "closed"
                 /\ i' = 1
                 /\ pc' = "print"
                 /\ UNCHANGED output
            ELSE /\ Die([text |-> "Error when closing connection to", args |-> <<ServerName, port>>],
                        EXIT_FAILURE)
                 /\ UNCHANGED <<conn, i>>
  /\ UNCHANGED <<argv, fs, base_delegations, port, credentials, forest_sid,
                 adminsdholder_sd, schema, delegations, naming_contexts, run, first_run>>

(* ---------------------------------------------------------- lines 164-177 *)
\* spec 4.5, matches(delegation, template)
is_instance_of(deleg, base_deleg) ==
  /\ base_deleg.trustee = WildTrustee \/ base_deleg.trustee = deleg.trustee
  /\ base_deleg.location = WildLocation \/ base_deleg.location = deleg.location
  /\ base_deleg.rights = WildRights \/ deleg.rights \subseteq base_deleg.rights

\* the bug of comparing with the first template only
FoundFirstOnly(deleg, bases) == bases # <<>> /\ is_instance_of(deleg, bases[1])

\* lines 165-171: the inner loop
Found(deleg, bases) == \E k \in 1..Len(bases) : is_instance_of(deleg, bases[k])

\* the bug of a break in place of the continue: the loop ends at the first
\* delegation a template matches
AfterFoundBreak(k) == Len(delegations) + 1

\* lines 172-174: continue with the next delegation
AfterFound(k) == k + 1

\* lines 164-176, one iteration; after the last one main returns
print_delegation ==
  /\ pc = "print"
  /\ IF i > Len(delegations)
       THEN /\ exit_code' = <<0>>
            /\ pc' = "exited"
            /\ UNCHANGED <<i, stdout>>
       ELSE /\ IF Found(delegations[i], base_delegations)
                 THEN i' = AfterFound(i) /\ UNCHANGED stdout
                 ELSE /\ i' = i + 1
                      /\ stdout' = Append(stdout, [kind |-> "delegation", body |-> delegations[i]])
            /\ UNCHANGED <<pc, exit_code>>
  /\ UNCHANGED <<env, locals, ldap_calls, stderr, run, first_run>>

(* ------------------------------------------------------------- second run *)
\* the same command line is run again over the same snapshot
run_again ==
  /\ pc = "exited"
  /\ run = 1
  /\ run' = 2
  /\ first_run' = [stdout |-> stdout, stderr |-> stderr, exit_code |-> exit_code]
  /\ pc' = "get_matches"
  /\ i' = 0
  /\ base_delegations' = <<>>
  /\ port' = 0
  /\ credentials' = <<>>
  /\ conn' = "none"
  /\ forest_sid' = None
  /\ adminsdholder_sd' = {}
  /\ schema' = {}
  /\ delegations' = <<>>
  /\ naming_contexts' = <<>>
  /\ ldap_calls' = <<>>
  /\ stdout' = <<>>
  /\ stderr' = <<>>
  /\ exit_code' = <<>>
  /\ UNCHANGED env

Next ==
  \/ get_matches
  \/ values_of
  \/ load_file
  \/ parse_port
  \/ connect
  \/ fetch_forest_sid
  \/ fetch_adminsdholder_sd
  \/ fetch_schema
  \/ schema_delegations
  \/ get_naming_contexts
  \/ search_naming_context
  \/ destroy
  \/ print_delegation

Spec == Init /\ [][Next]_vars

NextTwoRuns == Next \/ run_again

SpecTwoRuns == Init /\ [][NextTwoRuns]_vars

(* ================================================================ claims *)
Exited == pc = "exited"
Completed == Exited /\ exit_code = <<0>>
Fatal == Exited /\ exit_code # <<0>>

IsDelegationLine(l) == l.kind = "delegation"
\* the delegations written to standard output, in order
Written(out) ==
  LET ls == SelectSeq(out, IsDelegationLine) IN [k \in 1..Len(ls) |-> ls[k].body]
Count(s, x) == Cardinality({k \in 1..Len(s) : s[k] = x})
CallsNamed(n) == SelectSeq(ldap_calls, LAMBDA c : c.call = n)
Revealed(snap, k) == snap[k].st # Unknown
PortIsValid == ParseU16(argv.port) # <<>> /\ ParseU16(argv.port)[1] > 0

\* the template set: the records of all the files given, whatever their order
\* and their file
TemplateSet == UNION {Range(fs[argv.files[k]].val) : k \in 1..Len(argv.files)}
MatchesSome(d) == \E t \in TemplateSet : is_instance_of(d, t)

\* the combined set of the snapshot: the schema delegations and the explicit
\* delegations of every naming context
CombinedSet ==
  LET sid == directory["forest_sid"].val
      sch == directory["schema"].val
      adm == directory["adminsdholder_sd"].val
      ncs == directory["naming_contexts"].val IN
  Range(get_schema_delegations(sch, sid))
    \cup UNION {ExplicitDelegations(directory[ncs[k]].val, ncs[k], sid, sch, adm) : k \in 1..Len(ncs)}

\* C1: when the run completes, a delegation of the combined set is on standard
\* output iff no template of the template set matches it, and then once; and
\* nothing else is written as a delegation
C1_ReportedIffNoTemplateMatches ==
  Completed =>
    /\ Range(Written(stdout)) \subseteq CombinedSet
    /\ \A d \in CombinedSet :
         Count(Written(stdout), d) = IF MatchesSome(d) THEN 0 ELSE 1

\* a completed run with templates from two files, one delegation written and
\* one suppressed
C1_Witness ==
  /\ Completed
  /\ Len(argv.files) = 2
  /\ \A k \in 1..2 : fs[argv.files[k]].val # <<>>
  /\ fs[argv.files[1]].val # fs[argv.files[2]].val
  /\ Written(stdout) # <<>>
  /\ \E d \in CombinedSet : MatchesSome(d)
  /\ Len(directory["naming_contexts"].val) = 2

BadFile(p) == fs[p].st \in {Failure, "invalid"}

\* C2: once a template file has failed to open or to parse, the run has ended
\* with status 1 and one message that names that file, and no call on the
\* directory was made, whatever the position of the file
C2_BadTemplateFileIsFatalBeforeConnect ==
  \A k \in 1..Len(argv.files) :
    BadFile(argv.files[k]) =>
      /\ Exited
      /\ exit_code = <<EXIT_FAILURE>>
      /\ Len(stderr) = 1
      /\ stderr[1].args = <<argv.files[k]>>
      /\ stderr[1].text = IF fs[argv.files[k]].st = Failure
                            THEN " [!] Unable to open file"
                            ELSE " [!] Unable to parse file"
      /\ ldap_calls = <<>>
      /\ conn = "none"
      /\ Written(stdout) = <<>>

\* the second file does not parse, the first one held templates
C2_Witness ==
  /\ Len(argv.files) = 2
  /\ fs[argv.files[1]].st = Success
  /\ fs[argv.files[1]].val # <<>>
  /\ fs[argv.files[2]].st = "invalid"
  /\ Exited

SearchCalls == CallsNamed("get_explicit_delegations")

\* C3: once the search of a naming context has failed, the run has ended with
\* status 1, no delegation is on standard output, and the failed search is
\* the last call made on the directory
C3_SearchFailureAbortsWithoutOutput ==
  \A k \in 1..Len(SearchCalls) :
    SearchCalls[k].st = Failure =>
      /\ Exited
      /\ exit_code = <<EXIT_FAILURE>>
      /\ Written(stdout) = <<>>
      /\ k = Len(SearchCalls)
      /\ ldap_calls[Len(ldap_calls)] = SearchCalls[k]
      /\ conn = "open"

\* the second naming context fails after the first gave delegations and the
\* schema gave one too
C3_Witness ==
  /\ Len(SearchCalls) = 2
  /\ SearchCalls[1].st = Success
  /\ SearchCalls[2].st = Failure
  /\ Len(delegations) >= 2
  /\ delegations[1].origin = "schema-default"
  /\ \E k \in 1..Len(delegations) : ~Found(delegations[k], base_delegations)

OperationMessages ==
  {" [!] Unable to open file", " [!] Unable to parse file", "Unable to parse as TCP port",
   "Unable to connect to", "Unable to fetch forest SID",
   "Unable to fetch AdminSDHolder security descriptor",
   "Unable to fetch required information from schema",
   " [!] Error when fetching security descriptors of naming context",
   "Error when closing connection to",
   "error: The following required arguments were not provided"}

\* the operations that have no input but the connection
FetchMessages ==
  {"Unable to fetch forest SID", "Unable to fetch AdminSDHolder security descriptor",
   "Unable to fetch required information from schema"}

\* C4: every run that ends with a non-zero status has written exactly one
\* message to standard error, which names the operation that failed and, when
\* the operation has one, its input (file path, port, server, naming context)
C4_EveryFatalErrorNamesOperationAndInput ==
  Fatal =>
    /\ Len(stderr) = 1
    /\ stderr[1].text \in OperationMessages
    /\ stderr[1].text \notin FetchMessages => stderr[1].args # <<>>

FetchNames == {"get_forest_sid", "get_adminsdholder_sd", "Schema::query"}
PositionOf(n) == CHOOSE k \in 1..Len(ldap_calls) : ldap_calls[k].call = n
AllFetched ==
  \A n \in FetchNames : Len(CallsNamed(n)) = 1 /\ CallsNamed(n)[1].st = Success
SchemaDelegationsOfSnapshot ==
  get_schema_delegations(directory["schema"].val, directory["forest_sid"].val)

\* C5: each of the forest SID, the AdminSDHolder descriptor and the schema is
\* fetched at most once; all three were fetched, once and with success, before
\* the schema delegations are derived and before any naming context is
\* searched; every search receives the three values as fetched; a failed fetch
\* ends the run and no naming context is searched
C5_FetchedOnceAndShared ==
  /\ \A n \in FetchNames : Len(CallsNamed(n)) <= 1
  /\ (pc \in {"get_schema_delegations", "get_naming_contexts", "get_explicit_delegations",
              "destroy", "print"}
        \/ delegations # <<>> \/ SearchCalls # <<>>) => AllFetched
  /\ pc \in {"get_naming_contexts", "get_explicit_delegations", "destroy", "print"} =>
       /\ Len(delegations) >= Len(SchemaDelegationsOfSnapshot)
       /\ SubSeq(delegations, 1, Len(SchemaDelegationsOfSnapshot)) = SchemaDelegationsOfSnapshot
  /\ \A k \in 1..Len(ldap_calls) :
       ldap_calls[k].call = "get_explicit_delegations" =>
         /\ \A n \in FetchNames : PositionOf(n) < k
         /\ ldap_calls[k].args[2] = directory["forest_sid"].val
         /\ ldap_calls[k].args[3] = directory["schema"].val
         /\ ldap_calls[k].args[4] = directory["adminsdholder_sd"].val
  /\ \A n \in FetchNames :
       (CallsNamed(n) # <<>> /\ CallsNamed(n)[1].st = Failure) =>
         /\ Exited
         /\ exit_code = <<EXIT_FAILURE>>
         /\ SearchCalls = <<>>
         /\ delegations = <<>>

\* two naming contexts were searched, with the schema that has a default
\* right to report
C5_Witness ==
  /\ Len(SearchCalls) = 2
  /\ \A k \in 1..2 : SearchCalls[k].st = Success
  /\ SchemaDelegationsOfSnapshot # <<>>
  /\ Completed

ConnectCalls == CallsNamed("LdapConnection::new")
AllThree == argv.domain /\ argv.username /\ argv.password
NoneOfThree == ~argv.domain /\ ~argv.username /\ ~argv.password

\* C6: a connection is opened with explicit credentials iff domain, username
\* and password were all given, and without credentials when none was given;
\* with one or two of them the run ends in get_matches, with the usage
\* status, before any file is read and any call on the directory is made
C6_CredentialsAllOrNone ==
  /\ \A k \in 1..Len(ConnectCalls) :
       /\ AllThree \/ NoneOfThree
       /\ ConnectCalls[k].args[3] # <<>> <=> AllThree
       /\ ConnectCalls[k].args[3] = <<>> <=> NoneOfThree
  /\ (~AllThree /\ ~NoneOfThree) =>
       /\ ldap_calls = <<>>
       /\ \A p \in Range(FilePaths) : ~Revealed(fs, p)
       /\ pc \in {"get_matches", "exited"}
       /\ Exited => (exit_code = <<EXIT_USAGE>> /\ Len(stderr) = 1 /\ stdout = <<>>)

\* a connection was opened with the three credentials
C6_Witness ==
  /\ ConnectCalls # <<>>
  /\ ConnectCalls[1].args[3] # <<>>
  /\ ConnectCalls[1].st = Success

\* what each call does on the directory (spec section 6)
CallKind(name) ==
  CASE name = "LdapConnection::new" -> "connect"
    [] name = "get_naming_contexts" -> "list naming contexts"
    [] name = "destroy" -> "close"
    [] OTHER -> "search"

C8_SecondRunAgrees ==
  (run = 2 /\ Exited) =>
    /\ exit_code = first_run.exit_code
    /\ stderr = first_run.stderr
    /\ Range(Written(stdout)) = Range(Written(first_run.stdout))

\* the two runs wrote the same delegations in different orders
C8_Witness ==
  /\ run = 2
  /\ Completed
  /\ Len(Written(stdout)) >= 2
  /\ Written(stdout) # Written(first_run.stdout)

\* C9: with an empty template set (no file given, or files without records),
\* a valid command line and no failure of the directory, a run that has ended
\* has completed and has written every delegation of the combined set
C9_NoTemplatesReportsEverything ==
  ( /\ Exited
    /\ AllThree \/ NoneOfThree
    /\ PortIsValid
    /\ \A k \in 1..Len(argv.files) :
         fs[argv.files[k]].st \in {Unknown, Success} /\ fs[argv.files[k]].val = <<>>
    /\ \A k \in DirectoryKeys : directory[k].st # Failure )
  => /\ Completed
     /\ Range(Written(stdout)) = CombinedSet
     /\ Len(Written(stdout)) = Len(delegations)

DestroyCalls == CallsNamed("destroy")
LastCall == ldap_calls[Len(ldap_calls)]

\* C10: the connection is closed at most once; a completed run closed it once,
\* after it searched every naming context, and made no call after it; a
\* delegation is written only once the connection is closed; when the close
\* fails the run ends with status 1 and writes no delegation; a run that ends
\* with a failure after the connect has not closed the connection, and has
\* not tried to unless the close is what failed
C10_CloseOnceBeforeOutput ==
  /\ Len(DestroyCalls) <= 1
  /\ DestroyCalls # <<>> =>
       /\ LastCall.call = "destroy"
       /\ Len(SearchCalls) = Len(naming_contexts)
       /\ \A k \in 1..Len(SearchCalls) : SearchCalls[k].st = Success
  /\ conn = "closed" <=> (DestroyCalls # <<>> /\ DestroyCalls[1].st = Success)
  /\ Completed => conn = "closed"
  /\ Written(stdout) # <<>> => conn = "closed"
  /\ (DestroyCalls # <<>> /\ DestroyCalls[1].st = Failure) =>
       /\ Exited
       /\ exit_code = <<EXIT_FAILURE>>
       /\ Written(stdout) = <<>>
  /\ (Fatal /\ ConnectCalls # <<>>) =>
       /\ conn # "closed"
       /\ (DestroyCalls # <<>> => stderr[1].text = "Error when closing connection to")

\* the close failed after two successful searches that found delegations no
\* template matches
C10_Witness ==
  /\ DestroyCalls # <<>>
  /\ DestroyCalls[1].st = Failure
  /\ Len(SearchCalls) = 2
  /\ \E k \in 1..Len(delegations) : ~Found(delegations[k], base_delegations)

====
